---- MODULE Spec2Model ----
(***************************************************************************)
(* Model of publish_blog.py: the markdown-to-post compiler (slugify,       *)
(* parse_markdown_file), the publishing client (publish_post, delete_post, *)
(* list_posts) and the command line driver (process_path, main).           *)
(*                                                                         *)
(* Text is modelled as a sequence of one-character strings over Alphabet,  *)
(* so that slugify and str.title() are computed character by character as  *)
(* Python computes them.                                                   *)
(***************************************************************************)
EXTENDS Integers, Sequences, FiniteSets, TLC

\* ------------------------------------------------------------------ bounds
\* Longest text (title, slug, file stem) enumerated by SpecCompile.
MaxLen == 3
\* Largest number of directory entries enumerated by Spec.
MaxFiles == 3
\* Largest number of posts in a list response.
MaxPosts == 2

\* --------------------------------------------------------- program constants
\* The status the client accepts (response.status_code == 200).
HTTP_OK == 200

\* -------------------------------------------------------------------- text
\* One representative per character class that slugify and title() tell apart:
\* lowercase and uppercase letter, digit, underscore, hyphen, whitespace,
\* punctuation.
Alphabet == {"a", "A", "1", "_", "-", " ", "!"}

RECURSIVE StringsOfLen(_)
StringsOfLen(n) ==
    IF n = 0 THEN {<<>>}
    ELSE {Append(s, c) : s \in StringsOfLen(n - 1), c \in Alphabet}

RECURSIVE StringsUpTo(_)
StringsUpTo(n) == IF n = 0 THEN {<<>>} ELSE StringsOfLen(n) \cup StringsUpTo(n - 1)

Strings == StringsUpTo(MaxLen)

IsLowerChar(c) == c = "a"
IsUpperChar(c) == c = "A"
IsDigitChar(c) == c = "1"
IsSpaceChar(c) == c = " "
IsPunctChar(c) == c \in {"!", "_", "-"}

\* str.lower() / str.upper() on one character.
LowerChar(c) == IF c = "A" THEN "a" ELSE c
UpperChar(c) == IF c = "a" THEN "A" ELSE c

\* Code point order of the alphabet (Path sorting compares code points).
Code(c) ==
    CASE c = " " -> 32
      [] c = "!" -> 33
      [] c = "-" -> 45
      [] c = "1" -> 49
      [] c = "A" -> 65
      [] c = "_" -> 95
      [] c = "a" -> 97

\* The regular expression classes of slugify: \w, \s and [-\s].
IsWordChar(c) == c \in {"a", "A", "1", "_"}
IsSepChar(c) == c = "-" \/ IsSpaceChar(c)

\* text.lower()
lower(s) == [i \in 1..Len(s) |-> LowerChar(s[i])]

RECURSIVE lstrip(_)
lstrip(s) == IF s # <<>> /\ IsSpaceChar(Head(s)) THEN lstrip(Tail(s)) ELSE s

RECURSIVE rstrip(_)
rstrip(s) ==
    IF s # <<>> /\ IsSpaceChar(s[Len(s)]) THEN rstrip(SubSeq(s, 1, Len(s) - 1)) ELSE s

\* text.strip(): whitespace only, at both ends.
strip(s) == rstrip(lstrip(s))

\* re.sub(r'[^\w\s-]', '', text)
KeptBySlugify(c) == IsWordChar(c) \/ IsSpaceChar(c) \/ c = "-"

RemoveNonWord(s) == SelectSeq(s, KeptBySlugify)

\* re.sub(r'[-\s]+', '-', text): every maximal run of hyphens and whitespace
\* becomes one hyphen.
RECURSIVE DropSeps(_)
DropSeps(s) == IF s # <<>> /\ IsSepChar(Head(s)) THEN DropSeps(Tail(s)) ELSE s

RECURSIVE CollapseSeps(_)
CollapseSeps(s) ==
    IF s = <<>> THEN <<>>
    ELSE IF IsSepChar(Head(s)) THEN <<"-">> \o CollapseSeps(DropSeps(Tail(s)))
    ELSE <<Head(s)>> \o CollapseSeps(Tail(s))

slugify(text) == CollapseSeps(RemoveNonWord(strip(lower(text))))

\* str.replace('-', ' ')
ReplaceHyphens(s) == [i \in 1..Len(s) |-> IF s[i] = "-" THEN " " ELSE s[i]]

\* str.title(): a letter is upper-cased when the character before it is not a
\* letter, and lower-cased otherwise; other characters are kept.
IsCased(c) == IsLowerChar(c) \/ IsUpperChar(c)

TitleCase(s) ==
    [i \in 1..Len(s) |->
        IF ~IsCased(s[i]) THEN s[i]
        ELSE IF i > 1 /\ IsCased(s[i - 1]) THEN LowerChar(s[i])
        ELSE UpperChar(s[i])]

\* filepath.stem.replace('-', ' ').title()
DefaultTitle(stem) == TitleCase(ReplaceHyphens(stem))

\* dict.get(key, default)
Get(d, key, default) == IF key \in DOMAIN d THEN d[key] ELSE default

\* --------------------------------------------------------------- the state
VARIABLES
    API_URL,      \* module global API_URL (line 47): "" when unset
    API_KEY,      \* module global API_KEY (line 48): "" when unset
    args,         \* the parsed command line (argparse namespace) and what path names
    pc,           \* where main is: "start", "process" (in process_path), "exited"
    queue,        \* process_path: the files still to be processed, in order
    success,      \* process_path: local counter success
    failed,       \* process_path: local counter failed
    returned,     \* TRUE once process_path has returned (success, failed) to main
    sent,         \* every HTTP request issued so far, in order
    out,          \* every line printed to standard output so far, in order
    last,         \* the most recent client call: its operation, inputs and outcome
    exit_status,  \* the process exit status, meaningful when pc = "exited"
    uncaught,     \* the exception that ended the process, "" when none
    job,          \* SpecCompile: the input of the compiler run
    produced      \* SpecCompile: what the compiler run produced

vars == <<API_URL, API_KEY, args, pc, queue, success, failed, returned, sent, out,
          last, exit_status, uncaught, job, produced>>

cliVars == <<API_URL, API_KEY, args, pc, queue, success, failed, returned, sent, out,
             last, exit_status, uncaught>>

compileVars == <<job, produced>>

\* ------------------------------------------------------------ Post Compiler
\* A markdown file as frontmatter.load sees it: whether it loads at all, and
\* the front matter mapping (a function whose domain is the keys present).
\* The record keeps the fields the claims read; content, excerpt, tags,
\* featured_image and published_at are filled the same way and never read back.
parse_markdown_file(stem, metadata) ==
    LET title == Get(metadata, "title", DefaultTitle(stem))
        slug == Get(metadata, "slug", slugify(title))
    IN [slug |-> slug,
        title |-> title,
        category |-> Get(metadata, "category", "general"),
        is_published |-> Get(metadata, "published", TRUE)]

\* -------------------------------------------------------- HTTP environment
\* A JSON value is modelled by its literal text; bool(value) as Python takes it.
Truthy(v) == v \notin {"false", "null", "0", "\"\"", "absent"}

\* The response object of a JSON body, as a function from the keys present.
EmptyObject == [k \in {} |-> "null"]

CreateObjects ==
    {EmptyObject,
     [success |-> "true"],
     [success |-> "1"],
     [success |-> "false"],
     [success |-> "false", error |-> "\"duplicate slug\""],
     [error |-> "\"unauthorized\""]}

Post(i) ==
    [slug |-> <<"a">>, title |-> <<"A">>, category |-> "general",
     published_at |-> IF i = 1 THEN "2024-03-01 09:00:00" ELSE ""]

ListObjects ==
    {[posts |-> [i \in 1..n |-> Post(i)]] : n \in 0..MaxPosts}
        \cup {[error |-> "\"unauthorized\""], EmptyObject}

\* A response body: not JSON at all (response.json() raises ValueError), a
\* JSON value that is no object, or a JSON object.
NoObject == EmptyObject

BodiesOf(objects) ==
    {[type |-> t, obj |-> NoObject] : t \in {"text", "array", "null"}}
        \cup {[type |-> "object", obj |-> o] : o \in objects}

\* What requests.post / requests.get does: raises RequestException (timeout,
\* connection error), or returns a response with a status and a body.
NoResponse == [net |-> "none", status |-> 0, body |-> [type |-> "text", obj |-> NoObject]]

ResponsesOf(objects) ==
    {[net |-> "error", status |-> 0, body |-> [type |-> "text", obj |-> NoObject]]}
        \cup {[net |-> "ok", status |-> st, body |-> b] :
                 st \in {HTTP_OK, 500}, b \in BodiesOf(objects)}

CreateResponses == ResponsesOf(CreateObjects)

ListResponses == ResponsesOf(ListObjects)

NoRecord == [slug |-> <<>>, title |-> <<>>, category |-> "", is_published |-> FALSE]

NoCall ==
    [op |-> "none", ret |-> "None", exc |-> "", resp |-> NoResponse, nsent |-> 0,
     draft |-> FALSE, record |-> NoRecord, slug |-> ""]

\* What a client call did: its return value ("True", "False", "None") or the
\* exception it raised, the requests it issued, the lines it printed, and the
\* response it received (NoResponse when it received none).
Returns(value, reqs, lines, resp) ==
    [ret |-> value, exc |-> "", sent |-> reqs, out |-> lines, resp |-> resp]

Raises(exception, reqs, lines, resp) ==
    [ret |-> "raise", exc |-> exception, sent |-> reqs, out |-> lines, resp |-> resp]

\* -------------------------------------------------------- Publishing Client
\* ConfigMissing with the test of the key forgotten.
ConfigMissing_UrlOnly == API_URL = ""

\* if not API_URL or not API_KEY
ConfigMissing == API_URL = "" \/ API_KEY = ""

\* if not API_URL
UrlMissing == API_URL = ""

\* ApplyDraft with the draft flag ignored.
ApplyDraft_Ignored(post_data, draft) == post_data

\* if draft: post_data['is_published'] = False
ApplyDraft(post_data, draft) ==
    IF draft THEN [post_data EXCEPT !.is_published = FALSE] ELSE post_data

\* response.status_code == 200 and result.get('success')
Succeeded(resp) ==
    resp.status = HTTP_OK /\ Truthy(Get(resp.body.obj, "success", "absent"))

\* The tail shared by publish_post and delete_post once a response is in:
\* response.json(), then the success test, then the failure report.  result.get
\* exists only on a dict: on any other JSON value it raises AttributeError,
\* at the success test when the status is 200 (the `and` evaluates it) and at
\* the failure report otherwise.
Interpret(resp, reqs, okLine, failLine, invalidLine) ==
    IF resp.body.type = "text" THEN
        Returns("False", reqs, <<invalidLine, "http", "url", "content-type", "body">>, resp)
    ELSE IF resp.body.type # "object" THEN
        IF resp.status = HTTP_OK THEN Raises("AttributeError", reqs, <<>>, resp)
        ELSE Raises("AttributeError", reqs, <<failLine, "http">>, resp)
    ELSE IF Succeeded(resp) THEN Returns("True", reqs, <<okLine>>, resp)
    ELSE Returns("False", reqs,
                 <<failLine, "http", Get(resp.body.obj, "error", "Unknown error")>>, resp)

publish_post(post_data, draft, resp) ==
    IF ConfigMissing THEN Returns("False", <<>>, <<"config error">>, NoResponse)
    ELSE
        LET payload == ApplyDraft(post_data, draft)
            reqs == <<[method |-> "POST", action |-> "create", key |-> API_KEY,
                       slug |-> "", json |-> payload]>>
            label == IF draft \/ ~payload.is_published THEN "ok draft" ELSE "ok published"
        IN IF resp.net = "error" THEN
               Returns("False", reqs, <<"network error">>, NoResponse)
           ELSE Interpret(resp, reqs, label, "failed", "invalid response")

delete_post(slug, resp) ==
    IF ConfigMissing THEN Returns("False", <<>>, <<"config error">>, NoResponse)
    ELSE
        LET reqs == <<[method |-> "POST", action |-> "delete", key |-> API_KEY,
                       slug |-> slug, json |-> NoRecord]>>
        IN IF resp.net = "error" THEN
               Returns("False", reqs, <<"network error">>, NoResponse)
           ELSE Interpret(resp, reqs, "ok deleted", "failed to delete", "invalid response")

\* list_posts returns right after the try/except around response.json(): the
\* table and the `posts` test (lines 222-237) sit inside the except block
\* after its return, so no path reaches them.
list_posts(resp) ==
    IF UrlMissing THEN Returns("None", <<>>, <<"config error">>, NoResponse)
    ELSE
        LET reqs == <<[method |-> "GET", action |-> "posts", key |-> "",
                       slug |-> "", json |-> NoRecord]>>
        IN IF resp.net = "error" THEN
               Returns("None", reqs, <<"network error">>, NoResponse)
           ELSE IF resp.body.type = "text" THEN
               Returns("None", reqs,
                       <<"non-JSON response", "http", "url", "content-type", "body">>, resp)
           ELSE Returns("None", reqs, <<>>, resp)

\* ------------------------------------------------------------- file system
\* The front matter mapping of a file, as a function from the keys present.
EmptyMeta == [k \in {} |-> "null"]

\* The files the command line driver may read: one that frontmatter.load
\* rejects (undecodable bytes, malformed YAML), and loadable ones without
\* front matter, with `published` set either way, and with title and slug.
CliMetas ==
    {EmptyMeta,
     [published |-> TRUE],
     [published |-> FALSE],
     [title |-> <<"A", "!">>, slug |-> <<"a", "_", "1">>, published |-> TRUE]}

FileContents ==
    {[readable |-> FALSE, meta |-> EmptyMeta]}
        \cup {[readable |-> TRUE, meta |-> m] : m \in CliMetas}

\* The entries a directory may hold; a directory holds at most MaxFiles.
DirEntries ==
    {[stem |-> <<"a">>, suffix |-> ".md"],
     [stem |-> <<"a", "-", "1">>, suffix |-> ".md"],
     [stem |-> <<"A", "1">>, suffix |-> ".md"],
     [stem |-> <<"1">>, suffix |-> ".txt"]}

Directories == {S \in SUBSET DirEntries : Cardinality(S) <= MaxFiles}

NoEntry == [stem |-> <<>>, suffix |-> ""]

\* What args.path names: nothing given, a path that does not exist, a file,
\* or a directory.
PathArgs ==
    {[given |-> FALSE, kind |-> "none", file |-> NoEntry, entries |-> {}],
     [given |-> TRUE, kind |-> "missing", file |-> NoEntry, entries |-> {}]}
        \cup {[given |-> TRUE, kind |-> "file", entries |-> {},
               file |-> [stem |-> <<"a">>, suffix |-> x]] :
                 x \in {".md", ".MD", ".markdown", ".txt"}}
        \cup {[given |-> TRUE, kind |-> "dir", file |-> NoEntry, entries |-> S] :
                 S \in Directories}

\* argparse: --list, --delete SLUG ("" stands for both an absent and an empty
\* SLUG: `if args.delete` takes them alike), --draft, path.
ArgsSet ==
    [list : BOOLEAN, delete : {"", "old-post"}, draft : BOOLEAN, path : PathArgs]

\* path.suffix.lower()
SuffixLower(x) == IF x = ".MD" THEN ".md" ELSE x

\* path.suffix.lower() in ['.md', '.markdown']
IsMarkdownSuffix(x) == SuffixLower(x) \in {".md", ".markdown"}

\* path.glob('**/*.md')
glob(entries) == {e \in entries : e.suffix = ".md"}

\* Order of two file names of one directory: code point by code point, a
\* proper prefix first.  Every globbed name ends in ".md", so the names are
\* compared up to and including the dot (code point 46).
RECURSIVE CodesLess(_, _)
CodesLess(s, t) ==
    IF s = <<>> THEN t # <<>>
    ELSE IF t = <<>> THEN FALSE
    ELSE IF Head(s) # Head(t) THEN Head(s) < Head(t)
    ELSE CodesLess(Tail(s), Tail(t))

NameCodes(e) == [i \in 1..Len(e.stem) |-> Code(e.stem[i])] \o <<46>>

PathLess(e, f) == CodesLess(NameCodes(e), NameCodes(f))

\* sorted(...)
RECURSIVE sorted(_)
sorted(S) ==
    IF S = {} THEN <<>>
    ELSE LET m == CHOOSE e \in S : \A f \in S \ {e} : PathLess(e, f)
         IN <<m>> \o sorted(S \ {m})

\* ------------------------------------------------------------- process_path
\* The files process_path will visit: the file itself when its suffix is a
\* markdown one, the sorted glob for a directory.
FilesToProcess(path) ==
    IF path.kind = "file" THEN
        IF IsMarkdownSuffix(path.file.suffix) THEN <<path.file>> ELSE <<>>
    ELSE sorted(glob(path.entries))

\* ExitStatus with the comparison off by one.
ExitStatus_OffByOne(nfailed) == IF nfailed > 1 THEN 1 ELSE 0

\* if failed > 0: sys.exit(1); otherwise main returns and the status is 0.
ExitStatus(nfailed) == IF nfailed > 0 THEN 1 ELSE 0

CallRecord(op, r, draft, record, slug) ==
    [op |-> op, ret |-> r.ret, exc |-> r.exc, resp |-> r.resp, nsent |-> Len(r.sent),
     draft |-> draft, record |-> record, slug |-> slug]

\* --------------------------------------------------------------------- main
\* if args.list: list_posts(); return
ListPosts ==
    /\ pc = "start"
    /\ args.list
    /\ \E resp \in ListResponses :
          LET r == list_posts(resp)
          IN /\ sent' = sent \o r.sent
             /\ out' = out \o r.out
             /\ last' = CallRecord("list", r, FALSE, NoRecord, "")
    /\ pc' = "exited"
    /\ exit_status' = 0
    /\ UNCHANGED <<API_URL, API_KEY, args, queue, success, failed, returned, uncaught>>
    /\ UNCHANGED compileVars

\* if args.delete: delete_post(args.delete); return
\* The value delete_post returns is dropped; an exception it raises ends the
\* process with a traceback and status 1.
DeletePost ==
    /\ pc = "start"
    /\ ~args.list
    /\ args.delete # ""
    /\ \E resp \in CreateResponses :
          LET r == delete_post(args.delete, resp)
          IN /\ sent' = sent \o r.sent
             /\ out' = out \o r.out
             /\ last' = CallRecord("delete", r, FALSE, NoRecord, args.delete)
             /\ uncaught' = r.exc
             /\ exit_status' = IF r.ret = "raise" THEN 1 ELSE 0
    /\ pc' = "exited"
    /\ UNCHANGED <<API_URL, API_KEY, args, queue, success, failed, returned>>
    /\ UNCHANGED compileVars

\* if not args.path: parser.print_help(); return
PrintHelp ==
    /\ pc = "start"
    /\ ~args.list
    /\ args.delete = ""
    /\ ~args.path.given
    /\ out' = Append(out, "help")
    /\ pc' = "exited"
    /\ exit_status' = 0
    /\ UNCHANGED <<API_URL, API_KEY, args, queue, success, failed, returned, sent,
                   last, uncaught>>
    /\ UNCHANGED compileVars

\* if not path.exists(): print(...); sys.exit(1)
PathNotFound ==
    /\ pc = "start"
    /\ ~args.list
    /\ args.delete = ""
    /\ args.path.given
    /\ args.path.kind = "missing"
    /\ out' = Append(out, "path not found")
    /\ pc' = "exited"
    /\ exit_status' = 1
    /\ UNCHANGED <<API_URL, API_KEY, args, queue, success, failed, returned, sent,
                   last, uncaught>>
    /\ UNCHANGED compileVars

\* main calls process_path(path, args.draft): success = 0, failed = 0, and
\* the files to visit are fixed (a non-markdown single file is skipped).
StartPublish ==
    /\ pc = "start"
    /\ ~args.list
    /\ args.delete = ""
    /\ args.path.given
    /\ args.path.kind \in {"file", "dir"}
    /\ queue' = FilesToProcess(args.path)
    /\ out' = out \o <<"publishing">>
                  \o (IF args.path.kind = "file" /\ FilesToProcess(args.path) = <<>>
                      THEN <<"skipping non-markdown file">> ELSE <<>>)
    /\ success' = 0
    /\ failed' = 0
    /\ pc' = "process"
    /\ UNCHANGED <<API_URL, API_KEY, args, returned, sent, last, exit_status, uncaught>>
    /\ UNCHANGED compileVars

\* One iteration of process_path: parse_markdown_file, then publish_post, then
\* the counters.  Neither call is inside a try: an exception from
\* frontmatter.load or from publish_post leaves process_path and main, and the
\* process ends with a traceback and status 1.
ProcessFile ==
    /\ pc = "process"
    /\ queue # <<>>
    /\ \E content \in FileContents, resp \in CreateResponses :
          IF ~content.readable THEN
              /\ uncaught' = "ParseError"
              /\ exit_status' = 1
              /\ pc' = "exited"
              /\ UNCHANGED <<queue, success, failed, sent, out, last>>
          ELSE
              LET post_data == parse_markdown_file(Head(queue).stem, content.meta)
                  r == publish_post(post_data, args.draft, resp)
              IN /\ sent' = sent \o r.sent
                 /\ out' = out \o r.out
                 /\ last' = CallRecord("create", r, args.draft, post_data, "")
                 /\ IF r.ret = "raise" THEN
                        /\ uncaught' = r.exc
                        /\ exit_status' = 1
                        /\ pc' = "exited"
                        /\ UNCHANGED <<queue, success, failed>>
                    ELSE
                        /\ success' = IF r.ret = "True" THEN success + 1 ELSE success
                        /\ failed' = IF r.ret = "True" THEN failed ELSE failed + 1
                        /\ queue' = Tail(queue)
                        /\ UNCHANGED <<uncaught, exit_status, pc>>
    /\ UNCHANGED <<API_URL, API_KEY, args, returned>>
    /\ UNCHANGED compileVars

\* process_path returns (success, failed); main prints the results and exits.
ReturnResults ==
    /\ pc = "process"
    /\ queue = <<>>
    /\ returned' = TRUE
    /\ out' = Append(out, "results")
    /\ exit_status' = ExitStatus(failed)
    /\ pc' = "exited"
    /\ UNCHANGED <<API_URL, API_KEY, args, queue, success, failed, sent, last, uncaught>>
    /\ UNCHANGED compileVars

NoJob == [op |-> "none", text |-> <<>>, stem |-> <<>>, meta |-> EmptyMeta]

NoProduct == [done |-> FALSE, slug |-> <<>>, record |-> NoRecord]

Init ==
    /\ API_URL \in {"", "https://example.com/api/blog.php"}
    /\ API_KEY \in {"", "secret"}
    /\ args \in ArgsSet
    /\ pc = "start"
    /\ queue = <<>>
    /\ success = 0
    /\ failed = 0
    /\ returned = FALSE
    /\ sent = <<>>
    /\ out = <<>>
    /\ last = NoCall
    /\ exit_status = 0
    /\ uncaught = ""
    /\ job = NoJob
    /\ produced = NoProduct

Next ==
    \/ ListPosts
    \/ DeletePost
    \/ PrintHelp
    \/ PathNotFound
    \/ StartPublish
    \/ ProcessFile
    \/ ReturnResults

Spec == Init /\ [][Next]_vars

\* ------------------------------------------------- the compiler on its own
\* The inputs of a compiler run: slugify on every text up to MaxLen, and
\* parse_markdown_file on a file without front matter under every stem (a file
\* name is never empty), and on a file whose front matter sets title, slug or
\* both.
CompileMetas ==
    {[title |-> t] : t \in Strings}
        \cup {[slug |-> t] : t \in Strings}
        \cup {[title |-> t, slug |-> <<"a", "-", "1">>] : t \in Strings}
        \cup {[title |-> <<"A", " ", "a">>, published |-> b] : b \in BOOLEAN}

CompileJobs ==
    {[op |-> "slugify", text |-> t, stem |-> <<>>, meta |-> EmptyMeta] : t \in Strings}
        \cup {[op |-> "parse", text |-> <<>>, stem |-> st, meta |-> EmptyMeta] :
                 st \in Strings \ {<<>>}}
        \cup {[op |-> "parse", text |-> <<>>, stem |-> <<"a">>, meta |-> m] :
                 m \in CompileMetas}

\* slugify(text)
Slugify ==
    /\ job.op = "slugify"
    /\ ~produced.done
    /\ produced' = [done |-> TRUE, slug |-> slugify(job.text), record |-> NoRecord]
    /\ UNCHANGED job
    /\ UNCHANGED cliVars

\* parse_markdown_file(filepath) on a file that loads
Compile ==
    /\ job.op = "parse"
    /\ ~produced.done
    /\ produced' = [done |-> TRUE, slug |-> <<>>,
                    record |-> parse_markdown_file(job.stem, job.meta)]
    /\ UNCHANGED job
    /\ UNCHANGED cliVars

InitCompile ==
    /\ job \in CompileJobs
    /\ produced = NoProduct
    /\ API_URL = ""
    /\ API_KEY = ""
    /\ args = [list |-> FALSE, delete |-> "", draft |-> FALSE,
               path |-> [given |-> FALSE, kind |-> "none", file |-> NoEntry,
                         entries |-> {}]]
    /\ pc = "exited"
    /\ queue = <<>>
    /\ success = 0
    /\ failed = 0
    /\ returned = FALSE
    /\ sent = <<>>
    /\ out = <<>>
    /\ last = NoCall
    /\ exit_status = 0
    /\ uncaught = ""

NextCompile ==
    \/ Slugify
    \/ Compile

SpecCompile == InitCompile /\ [][NextCompile]_vars

\* ------------------------------------------------------------------ claims
InPublishMode == ~args.list /\ args.delete = "" /\ args.path.given

\* The requests of `sent` that carry the given action.
RequestsFor(action) == {i \in 1..Len(sent) : sent[i].action = action}

\* C1: create and delete with base_url or api_key empty, and list with
\* base_url empty, fail at once (create and delete return False, a
\* configuration error is printed) and issue no HTTP request.
C1_NoRequestWithoutConfig ==
    /\ (last.op \in {"create", "delete"} /\ (API_URL = "" \/ API_KEY = ""))
          => /\ last.ret = "False"
             /\ last.nsent = 0
             /\ RequestsFor("create") = {}
             /\ RequestsFor("delete") = {}
             /\ \E i \in 1..Len(out) : out[i] = "config error"
    /\ (last.op = "list" /\ API_URL = "")
          => /\ last.nsent = 0
             /\ sent = <<>>
             /\ out = <<"config error">>

\* C1 witness: a directory run with the URL set and the key empty has called
\* create twice, each call failing.
C1_Witness ==
    /\ last.op = "create"
    /\ API_URL # ""
    /\ API_KEY = ""
    /\ failed = 2

\* C2: once a response is in, create and delete return True exactly when the
\* status is 200 and the JSON body has a truthy `success`, and return False
\* for every other status and body.
C2_TrueIffSuccessElseFalse ==
    (last.op \in {"create", "delete"} /\ last.resp.net = "ok")
        => LET ok == /\ last.resp.status = 200
                     /\ last.resp.body.type = "object"
                     /\ "success" \in DOMAIN last.resp.body.obj
                     /\ last.resp.body.obj.success \in {"true", "1"}
           IN /\ last.ret = "True" <=> ok
              /\ ~ok => last.ret = "False"

\* C3: create always ends by returning a boolean, whatever the HTTP call did.
C3_CreateReturnsBoolean ==
    last.op = "create" => last.ret \in {"True", "False"}

\* C4: a directory run never stops early: when the process ends, process_path
\* has returned and success + failed is the number of *.md files found.
C4_BatchNeverAborts ==
    (pc = "exited" /\ InPublishMode /\ args.path.kind = "dir")
        => /\ returned
           /\ success + failed = Cardinality({e \in args.path.entries : e.suffix = ".md"})

\* C5: publishing an existing file or directory ends with status 0 when
\* process_path returned with failed = 0 and with status 1 otherwise; when
\* process_path returned, the status is 1 exactly when failed > 0.
C5_ExitStatusReflectsFailures ==
    (pc = "exited" /\ InPublishMode /\ args.path.kind \in {"file", "dir"})
        => /\ exit_status = IF returned /\ failed = 0 THEN 0 ELSE 1
           /\ returned => (exit_status = 1 <=> failed > 0)
           /\ exit_status = 0 => uncaught = ""

\* C5 witness: a run in which some files were published and one failed has
\* ended with status 1.
C5_Witness ==
    /\ pc = "exited"
    /\ InPublishMode
    /\ returned
    /\ success = 2
    /\ failed = 1
    /\ exit_status = 1

\* A client call that issued its request and got no response: a timeout or a
\* connection error.
NetworkFailed == last.nsent = 1 /\ last.resp.net = "none"

\* C6: a timeout or connection error in single-file, --list or --delete mode
\* ends the process with a non-zero status.
C6_NetworkFailureExitsNonZero ==
    (/\ pc = "exited"
     /\ NetworkFailed
     /\ \/ args.list
        \/ args.delete # ""
        \/ args.path.kind = "file")
        => exit_status # 0

\* C7: the payload of a create request has is_published = false when the
\* draft flag is set, whatever the file said, and is the compiled record
\* unchanged when the flag is not set.
C7_DraftForcesUnpublished ==
    /\ \A i \in RequestsFor("create") : args.draft => ~sent[i].json.is_published
    /\ (last.op = "create" /\ last.nsent = 1)
          => LET payload == sent[Len(sent)].json
             IN /\ last.draft => ~payload.is_published
                /\ last.draft => payload = [last.record EXCEPT !.is_published = FALSE]
                /\ ~last.draft => payload = last.record

\* C7 witness: a file whose front matter says published: true was sent with
\* the draft flag set.
C7_Witness ==
    /\ last.op = "create"
    /\ last.nsent = 1
    /\ last.draft
    /\ last.record.is_published
    /\ last.record.slug = <<"a", "_", "1">>

\* C8: list, once the body parsed as a JSON object, prints the table (one row
\* per post and a total) when `posts` is present and the API error when it is
\* missing: it never prints nothing.
C8_ListAlwaysReports ==
    (last.op = "list" /\ last.resp.net = "ok" /\ last.resp.body.type = "object")
        => LET obj == last.resp.body.obj
               rows == {i \in 1..Len(out) : out[i] = "row"}
           IN /\ out # <<>>
              /\ "posts" \in DOMAIN obj
                    => /\ Cardinality(rows) = Len(obj.posts)
                       /\ out[Len(out)] = "total"
              /\ "posts" \notin DOMAIN obj => out[Len(out)] = "api error"

ContainsUpper(s) == \E i \in 1..Len(s) : IsUpperChar(s[i])
ContainsPunct(s) == \E i \in 1..Len(s) : IsPunctChar(s[i])
ContainsInnerSpace(s) == \E i \in 2..(Len(s) - 1) : IsSpaceChar(s[i])

\* Only lowercase letters, digits and single hyphens, none at either end.
IsCleanSlug(s) ==
    /\ \A i \in 1..Len(s) : IsLowerChar(s[i]) \/ IsDigitChar(s[i]) \/ s[i] = "-"
    /\ \A i \in 1..(Len(s) - 1) : ~(s[i] = "-" /\ s[i + 1] = "-")
    /\ s # <<>> => (s[1] # "-" /\ s[Len(s)] # "-")

\* C9: the slug of a title with uppercase letters, punctuation or internal
\* whitespace has only lowercase letters, digits and single hyphens, and no
\* hyphen at either end.
C9_SlugIsClean ==
    (/\ job.op = "slugify"
     /\ produced.done
     /\ ContainsUpper(job.text) \/ ContainsPunct(job.text) \/ ContainsInnerSpace(job.text))
        => IsCleanSlug(produced.slug)

\* C10: every record the compiler emits has a non-empty slug and a non-empty
\* title.
C10_SlugAndTitleNonEmpty ==
    (job.op = "parse" /\ produced.done)
        => /\ produced.record.slug # <<>>
           /\ produced.record.title # <<>>

====
